---- MODULE Spec2Model ----
(***************************************************************************)
(* Model of convert_to_parquet.py: the batch conversion of csv/xlsx/dta    *)
(* files of a directory tree into a mirrored tree of Parquet files.        *)
(*                                                                         *)
(* A file name is a sequence of tokens ("c", ".", "csv"); a path is a      *)
(* sequence of names, <<>> being the file system root.  The file system is *)
(* the set of directories fsDirs and the function fsFiles from the paths   *)
(* of regular files to their content.  A content is the range of rows      *)
(* [lo, hi) of the source file src that the file holds.                    *)
(***************************************************************************)
EXTENDS Integers, Sequences, FiniteSets, TLC

\* ---------------------------------------------------------------- bounds
MaxFiles == 2
MaxFullChunks == 1
MaxRuns == 2

\* ------------------------------------------------------ program constants
Threshold == 50 * 1024 * 1024
chunk_size == 200000
PartWidth == 5
exts == { <<".", "csv">>, <<".", "xlsx">>, <<".", "xls">>, <<".", "dta">> }
None == "<None>"

\* ------------------------------------------------------------- utilities
Max(S) == CHOOSE x \in S : \A y \in S : y <= x
Min2(a, b) == IF a <= b THEN a ELSE b
Range(s) == { s[i] : i \in 1..Len(s) }
Prefixes(p) == { SubSeq(p, 1, n) : n \in 0..Len(p) }

RECURSIVE Perms(_)
Perms(S) ==
  IF S = {} THEN { <<>> }
  ELSE UNION { { <<x>> \o r : r \in Perms(S \ {x}) } : x \in S }

\* ------------------------------------------------------------ file names
FileName(stem, ext) == <<stem, ".", ext>>
DirName(s) == <<s>>
CurDir == <<".">>

\* str.lower() on the tokens that occur
Lower(t) ==
  CASE t = "CSV" -> "csv"
    [] t = "Y" -> "y"
    [] OTHER -> t
LowerName(n) == [i \in 1..Len(n) |-> Lower(n[i])]

\* os.path.splitext: the extension starts at the last dot that is not one
\* of the leading dots of the name
splitext(name) ==
  LET ds == { i \in 1..Len(name) :
                /\ name[i] = "."
                /\ \E j \in 1..(i-1) : name[j] # "." }
  IN  IF ds = {} THEN <<name, <<>>>>
      ELSE <<SubSeq(name, 1, Max(ds) - 1), SubSeq(name, Max(ds), Len(name))>>

\* ----------------------------------------------------------------- paths
join(a, b) == a \o b
dirname(p) == SubSeq(p, 1, Len(p) - 1)
basename(p) == p[Len(p)]
\* what the operating system makes of a path holding "." components
Norm(p) == SelectSeq(p, LAMBDA n : n # CurDir)
\* os.path.relpath(p, start) for p at or below start
relpath(p, start) ==
  LET r == SubSeq(p, Len(start) + 1, Len(p))
  IN  IF r = <<>> THEN <<CurDir>> ELSE r

\* f"part-{part:05d}.parquet"
DigitChars == <<"0", "1", "2", "3", "4", "5", "6", "7", "8", "9">>
RECURSIVE Digits(_)
Digits(n) ==
  IF n < 10 THEN <<DigitChars[n + 1]>>
  ELSE Append(Digits(n \div 10), DigitChars[(n % 10) + 1])
RECURSIVE ZeroPad(_, _)
ZeroPad(s, w) == IF Len(s) >= w THEN s ELSE ZeroPad(<<"0">> \o s, w)
PartName(part) ==
  <<"part-">> \o ZeroPad(Digits(part), PartWidth) \o <<".", "parquet">>

\* the order of sorted() on the names, from the ranks of their tokens
TokenOrder ==
  <<".", "0", "1", "2", "3", "4", "5", "6", "7", "8", "9", "CSV",
    "_parquet_out", "a", "b", "c", "csv", "dta", "in", "notes", "out",
    "parquet", "part-", "txt", "x", "xlsx">>
TokenRank(t) == CHOOSE i \in 1..Len(TokenOrder) : TokenOrder[i] = t
RECURSIVE NameLess(_, _)
NameLess(a, b) ==
  IF a = <<>> THEN b # <<>>
  ELSE IF b = <<>> THEN FALSE
  ELSE IF a[1] = b[1] THEN NameLess(Tail(a), Tail(b))
  ELSE TokenRank(a[1]) < TokenRank(b[1])
RECURSIVE sorted(_)
sorted(S) ==
  IF S = {} THEN <<>>
  ELSE LET m == CHOOSE x \in S : \A y \in S \ {x} : NameLess(x, y)
       IN  <<m>> \o sorted(S \ {m})

\* ------------------------------------------------------------------ state
VARIABLES
  fsDirs,       \* the directories on disk
  fsFiles,      \* path of a regular file |-> its content [src, lo, hi]
  tree,         \* input file |-> [size, rows, fault]: what reading it gives
  argInput,     \* args.input (or the directory picked); <<>> when empty
  argOutput,    \* args.output; <<>> when not given
  run,          \* number of the current invocation of main
  pc,           \* position of main
  input_dir, output_dir,
  files,        \* the list find_files returned
  idx,          \* position of the loop "for f in files"
  summary,      \* list of [file, out_files, err]
  part, part_dir,
  pos,          \* rows the chunked reader has delivered
  confirm,
  delIdx,       \* position of the loop "for orig, outs, err in summary"
  console,      \* what was printed: failed removals and the final counts
  writes,       \* log of write_df_to_parquet calls of this run
  removals,     \* log of os.remove calls of this run
  startShape,   \* directories and file paths on disk when this run started
  startMissing, \* whether the input directory was missing when it started
  prevFiles     \* the list find_files returned in the previous run

vars == <<fsDirs, fsFiles, tree, argInput, argOutput, run, pc, input_dir,
          output_dir, files, idx, summary, part, part_dir, pos, confirm,
          delIdx, console, writes, removals, startShape, startMissing,
          prevFiles>>

envVars == <<tree, argInput, argOutput>>
Terminal == {"done", "exit0", "exit1", "crashed"}
Shape == [dirs |-> fsDirs, files |-> DOMAIN fsFiles]

\* ------------------------------------------------------------ file system
IsFile(p) == Norm(p) \in DOMAIN fsFiles
\* os.makedirs(p, exist_ok=True) raises when p or an ancestor is a file
MakedirsOk_strict(p) ==
  /\ Norm(p) \notin fsDirs
  /\ \A q \in Prefixes(Norm(p)) : q \notin DOMAIN fsFiles
MakedirsOk(p) == \A q \in Prefixes(Norm(p)) : q \notin DOMAIN fsFiles
ensure_dir(p) == fsDirs \cup Prefixes(Norm(p))
\* df.to_parquet(out_path): the parent must be a directory, the path not
CanWrite(dirs, p) == /\ Norm(p) \notin dirs
                     /\ dirname(Norm(p)) \in dirs
write_df_to_parquet(df, out_path) == (Norm(out_path) :> df) @@ fsFiles
listdir(d) ==
  { basename(p) : p \in { q \in fsDirs \cup DOMAIN fsFiles :
                            q # <<>> /\ dirname(q) = Norm(d) } }

\* os.walk(root), top down: the matching files of a directory in listing
\* order, then its sub-directories one after the other.  The listing order
\* is the file system's, so every order is possible.
Matches(d, xs) ==
  { p \in DOMAIN fsFiles :
      /\ p # <<>> /\ dirname(p) = d
      /\ LowerName(splitext(basename(p))[2]) \in xs }
SubDirs(d) == { q \in fsDirs : q # <<>> /\ dirname(q) = d }
RECURSIVE Walk(_, _)
RECURSIVE WalkAll(_, _)
Walk(d, xs) ==
  { fo \o so : fo \in Perms(Matches(d, xs)), so \in WalkAll(SubDirs(d), xs) }
WalkAll(D, xs) ==
  IF D = {} THEN { <<>> }
  ELSE UNION { { w \o r : w \in Walk(d, xs), r \in WalkAll(D \ {d}, xs) }
               : d \in D }
find_files(root, xs) == IF root \in fsDirs THEN Walk(root, xs) ELSE { <<>> }

\* ------------------------------------------------------------ input trees
InRoot == <<DirName("in")>>
OutRoot == <<DirName("out")>>
ParquetOut == <<"_parquet_out">>

\* the places of the input files, relative to the input root
CandidatePaths ==
  { <<FileName("c", "csv")>>,
    <<FileName("c", "xlsx")>>,
    <<DirName("c"), DirName("b"), FileName("x", "CSV")>>,
    <<FileName("c", "parquet"), FileName("x", "dta")>>,
    <<FileName("notes", "txt")>> }

\* what reading a file gives: its size in bytes, its number of rows, and
\* the step at which its content makes the conversion raise (a chunk that
\* cannot be parsed, a column that cannot be serialised)
NoFault == [kind |-> "none", at |-> 0]
RowCounts == { MaxFullChunks * chunk_size, MaxFullChunks * chunk_size + 1 }
Faults ==
  {NoFault} \cup { [kind |-> k, at |-> a] :
                     k \in {"read", "write"}, a \in {0, MaxFullChunks} }
CsvMetas ==
  { m \in [size : {Threshold, Threshold + 1}, rows : RowCounts, fault : Faults] :
      /\ m.fault.at * chunk_size < m.rows
      /\ m.size = Threshold => (m.fault.at = 0 /\ m.rows = Max(RowCounts)) }
SheetMetas ==
  { m \in [size : {Threshold + 1}, rows : {Max(RowCounts)}, fault : Faults] :
      m.fault.at = 0 }
MetaFor(p) ==
  LET e == LowerName(splitext(basename(p))[2])
  IN  IF e = <<".", "csv">> THEN CsvMetas
      ELSE IF e \in exts THEN SheetMetas
      ELSE { [size |-> 1, rows |-> 1, fault |-> NoFault] }

RECURSIVE TreesOver(_)
TreesOver(P) ==
  IF P = {} THEN { <<>> }
  ELSE LET p == CHOOSE q \in P : TRUE
       IN  { (p :> m) @@ t : m \in MetaFor(p), t \in TreesOver(P \ {p}) }
Trees ==
  UNION { TreesOver({ join(InRoot, r) : r \in P }) :
            P \in { Q \in SUBSET CandidatePaths : Cardinality(Q) <= MaxFiles } }

RawContent(t) == [p \in DOMAIN t |-> [src |-> p, lo |-> 0, hi |-> t[p].rows]]

Init ==
  /\ \E given \in {"none", "missing", "present"} :
       /\ argInput = IF given = "none" THEN <<>> ELSE InRoot
       /\ \E t \in Trees :
            /\ given # "present" => t = <<>>
            /\ tree = t
            /\ fsFiles = RawContent(t)
            /\ fsDirs = { <<>> } \cup
                 (IF given = "present"
                  THEN Prefixes(InRoot) \cup
                       UNION { Prefixes(dirname(p)) : p \in DOMAIN t }
                  ELSE {})
  /\ argOutput \in { <<>>, OutRoot }
  /\ run = 1
  /\ pc = "start"
  /\ input_dir = <<>> /\ output_dir = <<>>
  /\ files = <<>> /\ idx = 1 /\ summary = <<>>
  /\ part = 0 /\ part_dir = <<>> /\ pos = 0
  /\ confirm = ""
  /\ delIdx = 1
  /\ console = [failed |-> <<>>, totals |-> <<>>]
  /\ writes = <<>> /\ removals = <<>>
  /\ startShape = [dirs |-> fsDirs, files |-> DOMAIN fsFiles]
  /\ startMissing = (argInput \notin fsDirs)
  /\ prevFiles = <<>>

\* ------------------------------------------------------- main, lines 92-104
Start ==
  /\ pc = "start"
  /\ input_dir' = argInput
  /\ IF argInput = <<>>
     THEN /\ pc' = "exit1"
          /\ UNCHANGED <<output_dir, fsDirs>>
     ELSE LET out == IF argOutput # <<>> THEN argOutput
                     ELSE join(argInput, <<ParquetOut>>)
          IN  /\ output_dir' = out
              /\ IF MakedirsOk(out)
                 THEN fsDirs' = ensure_dir(out) /\ pc' = "find"
                 ELSE pc' = "crashed" /\ UNCHANGED fsDirs
  /\ UNCHANGED <<fsFiles, envVars, run, files, idx, summary, part, part_dir,
                 pos, confirm, delIdx, console, writes, removals, startShape,
                 startMissing, prevFiles>>

\* The listing order of a directory that did not change is the same in the
\* next run.
FindFiles ==
  /\ pc = "find"
  /\ \E found \in find_files(input_dir, exts) :
       /\ prevFiles \in find_files(input_dir, exts) => found = prevFiles
       /\ files' = found
       /\ pc' = IF found = <<>> THEN "exit0" ELSE "loop"
  /\ idx' = 1
  /\ summary' = <<>>
  /\ UNCHANGED <<fsDirs, fsFiles, envVars, run, input_dir, output_dir, part,
                 part_dir, pos, confirm, delIdx, console, writes, removals,
                 startShape, startMissing, prevFiles>>

\* ------------------------------------------------- the loop, lines 107-126
rel_dir(f) == relpath(dirname(f), input_dir)
target_dir_flat(f) == output_dir
target_dir(f) == join(output_dir, rel_dir(f))
StemOf(f) == splitext(basename(f))[1]
ExtOf(f) == LowerName(splitext(basename(f))[2])
OutName(name) == name \o <<".", "parquet">>
UseChunks(file_size) == file_size > Threshold
NextPart_stuck(p) == p
NextPart(p) == p + 1
Outcome(f, outs, err) == [file |-> f, out_files |-> outs, err |-> err]
RecordOutcome_front(s, o) == <<o>> \o s
RecordOutcome(s, o) == Append(s, o)
Written(f, path, mode, lo, hi) ==
  [src |-> f, path |-> path, mode |-> mode, lo |-> lo, hi |-> hi]

NextFile ==
  /\ idx' = idx + 1
  /\ pc' = IF idx + 1 > Len(files) THEN "confirm" ELSE "loop"

\* one iteration for a file that is read whole: process_csv below the
\* threshold, process_excel, process_dta
ConvertWhole ==
  /\ pc = "loop"
  /\ LET f == files[idx]
         target == target_dir(f)
         out_file == join(target, <<OutName(StemOf(f))>>)
         df == [src |-> f, lo |-> 0, hi |-> tree[f].rows]
         known == ExtOf(f) \in exts
         readFails == tree[f].fault.kind = "read" \/ ~IsFile(f)
         writeFails == \/ tree[f].fault.kind = "write"
                       \/ ~CanWrite(ensure_dir(target), out_file)
     IN  /\ ~(ExtOf(f) = <<".", "csv">> /\ UseChunks(tree[f].size))
         /\ IF ~MakedirsOk(target)
            THEN /\ pc' = "crashed"
                 /\ UNCHANGED <<fsDirs, fsFiles, idx, summary, writes>>
            ELSE /\ fsDirs' = ensure_dir(target)
                 /\ NextFile
                 /\ IF ~known
                    THEN /\ summary' = RecordOutcome(summary, Outcome(f, <<>>, None))
                         /\ UNCHANGED <<fsFiles, writes>>
                    ELSE IF readFails
                    THEN /\ summary' = RecordOutcome(summary, Outcome(f, <<>>, "read error"))
                         /\ UNCHANGED <<fsFiles, writes>>
                    ELSE IF writeFails
                    THEN /\ summary' = RecordOutcome(summary, Outcome(f, <<>>, "write error"))
                         /\ UNCHANGED <<fsFiles, writes>>
                    ELSE /\ fsFiles' = write_df_to_parquet(df, out_file)
                         /\ writes' = Append(writes, Written(f, out_file, "whole", 0, tree[f].rows))
                         /\ summary' = RecordOutcome(summary, Outcome(f, <<out_file>>, None))
  /\ UNCHANGED <<envVars, run, input_dir, output_dir, files, part, part_dir,
                 pos, confirm, delIdx, console, removals, startShape,
                 startMissing, prevFiles>>

\* lines 108-112 and 42-46 for a csv file above the threshold
BeginChunked ==
  /\ pc = "loop"
  /\ LET f == files[idx]
         target == target_dir(f)
         pdir == join(target, <<StemOf(f)>>)
     IN  /\ ExtOf(f) = <<".", "csv">> /\ UseChunks(tree[f].size)
         /\ IF ~MakedirsOk(target)
            THEN /\ pc' = "crashed"
                 /\ UNCHANGED <<fsDirs, idx, summary, part, part_dir, pos>>
            ELSE IF ~MakedirsOk(pdir) \/ ~IsFile(f)
            THEN /\ fsDirs' = ensure_dir(target)
                 /\ summary' = RecordOutcome(summary, Outcome(f, <<>>, "makedirs error"))
                 /\ NextFile
                 /\ UNCHANGED <<part, part_dir, pos>>
            ELSE /\ fsDirs' = ensure_dir(target) \cup Prefixes(Norm(pdir))
                 /\ part' = 0
                 /\ part_dir' = pdir
                 /\ pos' = 0
                 /\ pc' = "chunks"
                 /\ UNCHANGED <<idx, summary>>
  /\ UNCHANGED <<fsFiles, envVars, run, input_dir, output_dir, files, confirm,
                 delIdx, console, writes, removals, startShape, startMissing,
                 prevFiles>>

\* one iteration of the loop of lines 47-50: read the next chunk_size rows,
\* write them to the part file, count the part
WriteChunk ==
  /\ pc = "chunks"
  /\ LET f == files[idx]
         k == pos \div chunk_size
         hi == Min2(pos + chunk_size, tree[f].rows)
         chunk == [src |-> f, lo |-> pos, hi |-> hi]
         out_file == join(part_dir, <<PartName(part)>>)
         readFails == tree[f].fault.kind = "read" /\ tree[f].fault.at = k
         writeFails == \/ tree[f].fault.kind = "write" /\ tree[f].fault.at = k
                       \/ ~CanWrite(fsDirs, out_file)
     IN  /\ pos < tree[f].rows
         /\ IF readFails \/ writeFails
            THEN /\ summary' = RecordOutcome(summary,
                      Outcome(f, <<>>, IF readFails THEN "read error" ELSE "write error"))
                 /\ NextFile
                 /\ UNCHANGED <<fsFiles, writes, part, pos>>
            ELSE /\ fsFiles' = write_df_to_parquet(chunk, out_file)
                 /\ writes' = Append(writes, Written(f, out_file, "chunk", pos, hi))
                 /\ part' = NextPart(part)
                 /\ pos' = hi
                 /\ UNCHANGED <<pc, idx, summary>>
  /\ UNCHANGED <<fsDirs, envVars, run, input_dir, output_dir, files, part_dir,
                 confirm, delIdx, console, removals, startShape, startMissing,
                 prevFiles>>

\* line 51 and line 122: the reader is exhausted
FinishChunked ==
  /\ pc = "chunks"
  /\ LET f == files[idx]
         names == sorted(listdir(part_dir))
         out_files == [i \in 1..Len(names) |-> join(part_dir, <<names[i]>>)]
     IN  /\ pos >= tree[f].rows
         /\ summary' = RecordOutcome(summary, Outcome(f, out_files, None))
  /\ NextFile
  /\ UNCHANGED <<fsDirs, fsFiles, envVars, run, input_dir, output_dir, files,
                 part, part_dir, pos, confirm, delIdx, console, writes,
                 removals, startShape, startMissing, prevFiles>>

\* ------------------------------------------------------ main, lines 128-147
\* args.delete, else the answer typed, stripped and lower-cased
Answers == {"y", "Y", "n", ""}
DeleteConfirmed_any(c) == c # "n"
DeleteConfirmed(c) == c = "y"
\* where the loop of lines 135-139 goes after a removal: the exception of a
\* refused removal is caught and printed
AfterRemoval_raise(ok) ==
  IF ~ok THEN "crashed"
  ELSE IF delIdx + 1 > Len(summary) THEN "summary" ELSE "delete"
AfterRemoval(ok) == IF delIdx + 1 > Len(summary) THEN "summary" ELSE "delete"

Confirm ==
  /\ pc = "confirm"
  /\ \E delete \in BOOLEAN, typed \in Answers :
       LET c == IF delete THEN "y" ELSE Lower(typed)
       IN  /\ confirm' = c
           /\ pc' = IF DeleteConfirmed(c) THEN "delete" ELSE "summary"
  /\ delIdx' = 1
  /\ UNCHANGED <<fsDirs, fsFiles, envVars, run, input_dir, output_dir, files,
                 idx, summary, part, part_dir, pos, console, writes, removals,
                 startShape, startMissing, prevFiles>>

\* one iteration of the loop of lines 135-139; os.remove may be refused
RemoveOrig ==
  /\ pc = "delete"
  /\ delIdx <= Len(summary)
  /\ LET orig == summary[delIdx].file
     IN  \E permitted \in BOOLEAN :
           IF permitted /\ IsFile(orig)
           THEN /\ fsFiles' = [p \in DOMAIN fsFiles \ {Norm(orig)} |-> fsFiles[p]]
                /\ removals' = Append(removals, [file |-> orig, ok |-> TRUE])
                /\ pc' = AfterRemoval(TRUE)
                /\ UNCHANGED console
           ELSE /\ removals' = Append(removals, [file |-> orig, ok |-> FALSE])
                /\ console' = [console EXCEPT !.failed = Append(@, orig)]
                /\ pc' = AfterRemoval(FALSE)
                /\ UNCHANGED fsFiles
  /\ delIdx' = delIdx + 1
  /\ UNCHANGED <<fsDirs, envVars, run, input_dir, output_dir, files, idx,
                 summary, part, part_dir, pos, confirm, writes, startShape,
                 startMissing, prevFiles>>

\* lines 144-147
Summarize ==
  /\ pc = "summary"
  /\ LET succ == Cardinality({ i \in 1..Len(summary) : summary[i].err = None })
         fail == Cardinality({ i \in 1..Len(summary) : summary[i].err # None })
     IN  console' = [console EXCEPT !.totals = <<succ, fail>>]
  /\ pc' = "done"
  /\ UNCHANGED <<fsDirs, fsFiles, envVars, run, input_dir, output_dir, files,
                 idx, summary, part, part_dir, pos, confirm, delIdx, writes,
                 removals, startShape, startMissing, prevFiles>>

\* the program is started again on the unchanged input tree
Rerun ==
  /\ pc \in {"done", "exit0", "crashed"}
  /\ run < MaxRuns
  /\ \A p \in DOMAIN tree : p \in DOMAIN fsFiles
  /\ run' = run + 1
  /\ pc' = "start"
  /\ input_dir' = <<>> /\ output_dir' = <<>>
  /\ files' = <<>> /\ idx' = 1 /\ summary' = <<>>
  /\ part' = 0 /\ part_dir' = <<>> /\ pos' = 0
  /\ confirm' = ""
  /\ delIdx' = 1
  /\ console' = [failed |-> <<>>, totals |-> <<>>]
  /\ writes' = <<>> /\ removals' = <<>>
  /\ startShape' = Shape
  /\ startMissing' = (argInput \notin fsDirs)
  /\ prevFiles' = files
  /\ UNCHANGED <<fsDirs, fsFiles, envVars>>

Next ==
  \/ Start
  \/ FindFiles
  \/ ConvertWhole
  \/ BeginChunked
  \/ WriteChunk
  \/ FinishChunked
  \/ Confirm
  \/ RemoveOrig
  \/ Summarize
  \/ Rerun

Spec == Init /\ [][Next]_vars

\* ================================================================ claims
\* the place of an input file as the claims name it: a/b/c.<ext> below the
\* input root, and the output root the arguments ask for
RelDirOf(f) == SubSeq(f, Len(InRoot) + 1, Len(f) - 1)
BaseOf(f) == SubSeq(basename(f), 1, Len(basename(f)) - 2)
OutputRoot == IF argOutput = <<>> THEN InRoot \o <<ParquetOut>> ELSE argOutput
NormSet(ps) == { Norm(ps[i]) : i \in 1..Len(ps) }
IsCsv(f) == Lower(basename(f)[Len(basename(f))]) = "csv"
Ceil(a, b) == (a + b - 1) \div b
WritesOf(f) == SelectSeq(writes, LAMBDA w : w.src = f)
DigitValue(t) == CHOOSE d \in 0..9 : DigitChars[d + 1] = t
RECURSIVE NumberOf(_)
NumberOf(ds) ==
  IF ds = <<>> THEN 0
  ELSE 10 * NumberOf(SubSeq(ds, 1, Len(ds) - 1)) + DigitValue(ds[Len(ds)])
\* the digits of a part file name part-<digits>.parquet
PartDigits(n) == SubSeq(n, 2, Len(n) - 2)

\* C1: whatever files fail, and at whatever step of their handling, the run
\* does not abort: it ends with exactly one outcome per discovered file, in
\* discovery order, with an error description exactly for the files that
\* failed.
C1_RunCompletes ==
  (pc \in Terminal /\ files # <<>>) =>
     /\ pc = "done"
     /\ Len(summary) = Len(files)
     /\ \A i \in 1..Len(summary) :
          /\ summary[i].file = files[i]
          /\ tree[files[i]].fault.kind # "none" => summary[i].err # None

\* C4: a csv of at most 50 MiB gives exactly one recorded output file; a csv
\* above 50 MiB gives ceil(row_count / chunk_size) recorded parts, whatever
\* the output directory held before.
C4_PartCount ==
  \A i \in 1..Len(summary) :
    LET o == summary[i]
        m == tree[o.file]
    IN  (o.err = None /\ IsCsv(o.file)) =>
          Len(o.out_files) = IF m.size <= 50 * 1024 * 1024 THEN 1
                             ELSE Ceil(m.rows, chunk_size)

\* C7: a missing input directory aborts the run with an error before any
\* file is processed: never the clean "no files found" exit, and nothing is
\* created on disk.
C7_MissingInputIsFatal ==
  (startMissing /\ argInput # <<>>) =>
     /\ pc \notin {"exit0", "loop", "chunks", "confirm", "delete", "summary", "done"}
     /\ Shape = startShape

\* C10: the output paths recorded for two different input files are
\* disjoint, and no conversion overwrites a file that the same run produced
\* from another input.
C10_OutputsDisjoint ==
  /\ \A i, j \in 1..Len(summary) :
       i # j => NormSet(summary[i].out_files) \cap NormSet(summary[j].out_files) = {}
  /\ \A a, b \in 1..Len(writes) :
       Norm(writes[a].path) = Norm(writes[b].path) => writes[a].src = writes[b].src

\* C2: when deletion is confirmed, a removal is attempted for every
\* discovered file, in order, whatever its outcome; a refused removal is
\* reported, and neither the remaining removals nor the final summary are
\* lost to it.
C2_DeletionAttemptsAll ==
  /\ confirm = "y" => pc \in {"delete", "summary", "done"}
  /\ (confirm = "y" /\ pc \in {"summary", "done"}) =>
       /\ [i \in 1..Len(removals) |-> removals[i].file] = files
       /\ console.failed =
            [i \in 1..Len(SelectSeq(removals, LAMBDA r : ~r.ok)) |->
               SelectSeq(removals, LAMBDA r : ~r.ok)[i].file]
       /\ \A i \in 1..Len(removals) : removals[i].ok => ~IsFile(removals[i].file)
  /\ (confirm = "y" /\ pc = "done") =>
       console.totals = <<Cardinality({ i \in 1..Len(summary) : summary[i].err = None }),
                          Cardinality({ i \in 1..Len(summary) : summary[i].err # None })>>
C2_Witness ==
  /\ pc = "done" /\ confirm = "y" /\ Len(removals) >= 2
  /\ ~removals[1].ok
  /\ removals[2].ok /\ summary[2].err # None

\* C3: a whole-file conversion of a/b/c.<ext> writes exactly
\* <output_root>/a/b/c.parquet, a chunked one writes only inside
\* <output_root>/a/b/c/; the run stops at the creation of a target directory
\* only when a regular file is in its way, never because it exists.
C3_MirroredLayout ==
  /\ \A i \in 1..Len(writes) :
       LET w == writes[i]
           base == OutputRoot \o RelDirOf(w.src)
       IN  /\ w.mode = "whole" =>
                Norm(w.path) = base \o <<BaseOf(w.src) \o <<".", "parquet">>>>
           /\ w.mode = "chunk" =>
                dirname(Norm(w.path)) = base \o <<BaseOf(w.src)>>
           /\ dirname(Norm(w.path)) \in fsDirs
  /\ (pc = "crashed" /\ files # <<>>) =>
       \E q \in Prefixes(OutputRoot \o RelDirOf(files[idx])) : q \in DOMAIN fsFiles
C3_Witness ==
  /\ run = 2 /\ pc = "done"
  /\ \E i, j \in 1..Len(writes) :
       /\ writes[i].mode = "whole" /\ RelDirOf(writes[i].src) = <<>>
       /\ writes[j].mode = "chunk" /\ Len(RelDirOf(writes[j].src)) = 2

\* C5: at every point of a chunked conversion the parts it has written are
\* part-00000, part-00001, ... with no gap and no repeat, the k-th holding
\* the k-th chunk_size rows of the file, so that the parts in numeric order
\* give the rows in their original order.
C5_PartNumbering ==
  \A f \in Range(files) :
    LET ws == WritesOf(f)
    IN  \A i \in 1..Len(ws) :
          ws[i].mode = "chunk" =>
            /\ basename(ws[i].path)[1] = "part-"
            /\ Len(PartDigits(basename(ws[i].path))) = 5
            /\ NumberOf(PartDigits(basename(ws[i].path))) = i - 1
            /\ ws[i].lo = (i - 1) * chunk_size
            /\ ws[i].hi = Min2(i * chunk_size, tree[f].rows)
            /\ (pc = "chunks" /\ f = files[idx]) =>
                 /\ Len(ws) = part
                 /\ fsFiles[Norm(ws[i].path)] = [src |-> f, lo |-> ws[i].lo, hi |-> ws[i].hi]
C5_Witness ==
  /\ pc = "chunks" /\ part >= 2
  /\ Len(WritesOf(files[idx])) = part

\* C6: a second run on the unchanged input tree with the same output root,
\* deletion not confirmed, discovers the same files and leaves the same
\* directories and files on disk as the first run did.
C6_Idempotent ==
  (run >= 2 /\ pc \in Terminal /\ confirm # "y") =>
     /\ Range(files) = Range(prevFiles)
     /\ Shape = startShape
C6_Witness ==
  /\ run = 2 /\ pc = "done" /\ confirm # "y" /\ argOutput = <<>>
  /\ \E i \in 1..Len(writes) : writes[i].mode = "chunk" /\ writes[i].lo > 0
  /\ Shape = startShape

\* C8: before the loop over the files has ended, and in every state of a run
\* in which deletion was not confirmed, every input file is still on disk.
C8_NoEarlyRemoval ==
  (Len(summary) < Len(files) \/ pc \in {"start", "find", "loop", "chunks", "confirm"}
     \/ confirm # "y") =>
     \A p \in DOMAIN tree : IsFile(p)
C8_Witness ==
  /\ confirm = "y" /\ removals # <<>> /\ removals[1].ok
  /\ ~IsFile(removals[1].file)
  /\ Len(summary) = Len(files)

\* C9: a conversion that fails gets one outcome with the error message and
\* no output files; the parts it wrote before stay on disk, the file is not
\* attempted again, and an outcome once recorded never changes.
C9_FailedIsTerminal ==
  /\ [](/\ Len(summary) <= Len(files)
        /\ \A i \in 1..Len(summary) :
             /\ summary[i].file = files[i]
             /\ summary[i].err # None =>
                  /\ summary[i].out_files = <<>>
                  /\ \A k \in 1..Len(writes) :
                       writes[k].src = summary[i].file => IsFile(writes[k].path))
  /\ [][run' = run =>
          /\ Len(summary') >= Len(summary)
          /\ SubSeq(summary', 1, Len(summary)) = summary
          /\ \A k \in (Len(writes) + 1)..Len(writes') :
               writes'[k].src \notin { summary[i].file : i \in 1..Len(summary) }]_vars
C9_Witness ==
  \E i \in 1..Len(summary) :
    /\ summary[i].err # None
    /\ tree[summary[i].file].fault.at >= 1
    /\ Len(WritesOf(summary[i].file)) >= 1
    /\ \A k \in 1..Len(writes) : IsFile(writes[k].path)

====
